---------------------------- MODULE Spec2Model ----------------------------
(***************************************************************************)
(* Model of DBSearcher (src/search.py): the PubMed query validator, the    *)
(* PubMed -> Embase query converter, the per-source record extraction and  *)
(* the search procedure with its deduplication.                            *)
(*                                                                         *)
(* A text is a sequence of one-character strings, so that the regular      *)
(* expressions and string methods of the source are computed character by  *)
(* character.                                                              *)
(***************************************************************************)
EXTENDS Integers, Sequences, FiniteSets, TLC

VARIABLES
    pc,              \* position in the procedure under check
    query,           \* the query string handed to the procedure
    valid,           \* result of __is_proper_pubmed_search
    embase_query,    \* result of __convert_pubmed_to_embase
    raw,             \* a raw record handed to the extraction functions
    normalized,      \* what the extraction made of raw
    pubmed_ids,      \* search(): the id list of __search_pubmed
    articles,        \* the PubmedArticle nodes of the efetch response
    pubmed_details,  \* search(): the list of __fetch_pubmed_details
    embase_results,  \* search(): the document list of __search_embase
    embase_details,  \* search(): one tuple per Embase document
    results_data,    \* search(): the rows appended, before deduplication
    returned,        \* the rows of the DataFrame search() returns
    calls,           \* the calls search() has made so far, in order
    failed           \* the sources whose except branch has run

queryVars == <<query, valid, embase_query>>

normVars == <<raw, normalized>>

searchVars == <<pubmed_ids, articles, pubmed_details, embase_results,
                embase_details, results_data, returned, calls, failed>>

vars == <<pc, queryVars, normVars, searchVars>>

-----------------------------------------------------------------------------
(* Characters and the character classes of Python's re module (\w, \s, \b) *)

LowerLetters ==
    <<"a","b","c","d","e","f","g","h","i","j","k","l","m",
      "n","o","p","q","r","s","t","u","v","w","x","y","z">>

UpperLetters ==
    <<"A","B","C","D","E","F","G","H","I","J","K","L","M",
      "N","O","P","Q","R","S","T","U","V","W","X","Y","Z">>

LowerSet == {LowerLetters[i] : i \in 1..26}

UpperSet == {UpperLetters[i] : i \in 1..26}

DigitSet == {"0","1","2","3","4","5","6","7","8","9"}

WordCharSet == LowerSet \cup UpperSet \cup DigitSet \cup {"_"}

SpaceSet == {" ", "\t", "\n", "\r", "\f"}

IsWordChar(c) == c \in WordCharSet

IsSpace(c) == c \in SpaceSet

ToLowerChar(c) ==
    IF c \in UpperSet
    THEN LowerLetters[CHOOSE i \in 1..26 : UpperLetters[i] = c]
    ELSE c

ToUpperChar(c) ==
    IF c \in LowerSet
    THEN UpperLetters[CHOOSE i \in 1..26 : LowerLetters[i] = c]
    ELSE c

\* str.lower()
Lower(s) == [i \in 1..Len(s) |-> ToLowerChar(s[i])]

\* str.upper()
Upper(s) == [i \in 1..Len(s) |-> ToUpperChar(s[i])]

\* str.count(c) for a one-character c
Count(s, c) == Cardinality({i \in 1..Len(s) : s[i] = c})

\* s[i-1 : i-1+n] of Python, 1-based here
Slice(s, i, n) == SubSeq(s, i, i + n - 1)

\* least element of a non-empty set of integers
Min(S) == CHOOSE x \in S : \A y \in S : x <= y

\* number of characters of s from position i on that lie in set
RunIn(s, i, set) ==
    LET stop == {j \in i..Len(s) : s[j] \notin set}
    IN  IF i > Len(s) THEN 0
        ELSE IF stop = {} THEN Len(s) - i + 1
        ELSE Min(stop) - i

\* number of characters of s from position i on that lie outside set
RunNotIn(s, i, set) ==
    LET stop == {j \in i..Len(s) : s[j] \in set}
    IN  IF i > Len(s) THEN 0
        ELSE IF stop = {} THEN Len(s) - i + 1
        ELSE Min(stop) - i

\* seqs[lo] \o ... \o seqs[hi]
RECURSIVE ConcatRange(_, _, _)
ConcatRange(seqs, lo, hi) ==
    IF lo > hi THEN <<>>
    ELSE IF lo = hi THEN seqs[lo]
    ELSE LET mid == (lo + hi) \div 2
         IN  ConcatRange(seqs, lo, mid) \o ConcatRange(seqs, mid + 1, hi)

\* the literal lit occurs in s at position i
LitAt(s, i, lit) ==
    /\ i + Len(lit) - 1 <= Len(s)
    /\ \A k \in 1..Len(lit) : s[i + k - 1] = lit[k]

\* the literal lit occurs in s at position i, letter case ignored
LitAtIgnoreCase(s, i, lit) ==
    /\ i + Len(lit) - 1 <= Len(s)
    /\ \A k \in 1..Len(lit) : ToLowerChar(s[i + k - 1]) = ToLowerChar(lit[k])

\* \b at position p of s: between s[p-1] and s[p], p in 1..Len(s)+1
WordBoundary(s, p) ==
    (p > 1 /\ IsWordChar(s[p - 1])) # (p <= Len(s) /\ IsWordChar(s[p]))

-----------------------------------------------------------------------------
(* Literals of the source *)

S_AND == <<"A","N","D">>

S_OR == <<"O","R">>

S_NOT == <<"N","O","T">>

\* the alternation (AND|OR|NOT), in the order the pattern tries it
operator_alternatives == <<S_AND, S_OR, S_NOT>>

valid_field_tags ==
    { <<"t","i","a","b">>, <<"t","i","t","l","e">>,
      <<"a","b","s","t","r","a","c","t">>, <<"m","e","s","h">>, <<"m","h">> }

-----------------------------------------------------------------------------
(* Regular expression matching: MatchLen(pat, s, i) is the length of the   *)
(* match of pat that starts at position i of s, 0 when there is none.      *)

\* r"\b(AND|OR|NOT)\b" with re.IGNORECASE
OperatorMatchLen(s, i) ==
    IF ~WordBoundary(s, i) THEN 0
    ELSE LET fits(k) == /\ LitAtIgnoreCase(s, i, operator_alternatives[k])
                        /\ WordBoundary(s, i + Len(operator_alternatives[k]))
         IN  IF \E k \in 1..3 : fits(k)
             THEN Len(operator_alternatives[CHOOSE k \in 1..3 :
                        fits(k) /\ \A j \in 1..(k - 1) : ~fits(j)])
             ELSE 0

\* r"\[\w+\]"
FieldTagMatchLen(s, i) ==
    IF i <= Len(s) /\ s[i] = "["
    THEN LET n == RunIn(s, i + 1, WordCharSet)
         IN  IF n >= 1 /\ i + n + 1 <= Len(s) /\ s[i + n + 1] = "]"
             THEN n + 2 ELSE 0
    ELSE 0

QuoteSet == {"'", "\""}

\* First alternative of the step 1 pattern.  The pattern is a raw string in
\* which every backslash is doubled, so the regular expression reads
\*   (?<!['"])  \\ b \\ w  [\\ w \\ s / -]+  \\ b  (?!['"])
\* : a literal backslash, b, backslash, w; one or more characters of the
\* class {backslash, w, s, /, -}; a literal backslash, b.
BareTermMatchLen(s, i) ==
    LET class == {"\\", "w", "s", "/", "-"}
        r     == RunIn(s, i + 4, class)
        ok(k) == /\ LitAt(s, i + 4 + k, <<"\\", "b">>)
                 /\ ~(i + 6 + k <= Len(s) /\ s[i + 6 + k] \in QuoteSet)
    IN  IF /\ ~(i > 1 /\ s[i - 1] \in QuoteSet)
           /\ LitAt(s, i, <<"\\", "b", "\\", "w">>)
           /\ \E k \in 1..r : ok(k)
        THEN 6 + (CHOOSE k \in 1..r : ok(k) /\ \A j \in (k + 1)..r : ~ok(j))
        ELSE 0

\* Second alternative of the step 1 pattern: "([^"]+)"
QuotedMatchLen(s, i) ==
    IF i <= Len(s) /\ s[i] = "\""
    THEN LET n == RunNotIn(s, i + 1, {"\""})
         IN  IF n >= 1 /\ i + n + 1 <= Len(s) THEN n + 2 ELSE 0
    ELSE 0

\* One alternative \bword\b of the step 5 pattern.  The word is used as a
\* regular expression: "[" opens a character class that runs to the next
\* "]"; every other character the queries can hold stands for itself.
\* The queries drawn hold "[" only as part of a whole tag, so a class that
\* is never closed (re.error in Python) does not arise.
RECURSIVE WordAtoms(_, _)
WordAtoms(w, i) ==
    IF i > Len(w) THEN <<>>
    ELSE IF w[i] = "[" /\ \E j \in (i + 2)..Len(w) : w[j] = "]"
    THEN LET j == CHOOSE j \in (i + 2)..Len(w) :
                    w[j] = "]" /\ \A k \in (i + 2)..(j - 1) : w[k] # "]"
         IN  <<{w[k] : k \in (i + 1)..(j - 1)}>> \o WordAtoms(w, j + 1)
    ELSE <<{w[i]}>> \o WordAtoms(w, i + 1)

WordMatchLen(atoms, s, i) ==
    LET n == Len(atoms)
    IN  IF /\ WordBoundary(s, i)
           /\ i + n - 1 <= Len(s)
           /\ \A k \in 1..n : s[i + k - 1] \in atoms[k]
           /\ WordBoundary(s, i + n)
        THEN n ELSE 0

\* \bw1\b|\bw2\b|... : the first alternative that matches at i;
\* alts[k] is the k-th word, read as a regular expression
WordsMatchLen(alts, s, i) ==
    LET fits(k) == WordMatchLen(alts[k], s, i) > 0
    IN  IF \E k \in 1..Len(alts) : fits(k)
        THEN WordMatchLen(alts[CHOOSE k \in 1..Len(alts) :
                    fits(k) /\ \A j \in 1..(k - 1) : ~fits(j)], s, i)
        ELSE 0

MatchLen(pat, s, i) ==
    CASE pat.kind = "operator"  -> OperatorMatchLen(s, i)
      [] pat.kind = "field_tag" -> FieldTagMatchLen(s, i)
      [] pat.kind = "term"      ->
            IF BareTermMatchLen(s, i) > 0 THEN BareTermMatchLen(s, i)
            ELSE QuotedMatchLen(s, i)
      [] pat.kind = "literal"   -> IF LitAt(s, i, pat.lit) THEN Len(pat.lit) ELSE 0
      [] pat.kind = "space"     -> RunIn(s, i, SpaceSet)
      [] pat.kind = "words"     -> WordsMatchLen(pat.alts, s, i)

\* the match lengths of pat at every position of s
MatchLens(pat, s) == [i \in 1..Len(s) |-> MatchLen(pat, s, i)]

\* where the scan of re.findall / re.sub finds its matches: the leftmost
\* match from position i on, then on from the end of that match
RECURSIVE MatchStartsFrom(_, _)
MatchStartsFrom(lens, i) ==
    LET at == {j \in i..Len(lens) : lens[j] > 0}
    IN  IF at = {} THEN <<>>
        ELSE <<Min(at)>> \o MatchStartsFrom(lens, Min(at) + lens[Min(at)])

\* re.findall(pat, s): the non-overlapping matches, left to right
FindAllWith(lens, starts, s) ==
    [k \in 1..Len(starts) |-> Slice(s, starts[k], lens[starts[k]])]

FindAll(pat, s) ==
    FindAllWith(MatchLens(pat, s), MatchStartsFrom(MatchLens(pat, s), 1), s)

-----------------------------------------------------------------------------
(* DBSearcher.__is_proper_pubmed_search *)

\* the validator without the check of the number of double quotes
is_proper_pubmed_search_NoQuoteCheck(q) ==
    LET operators  == FindAll([kind |-> "operator"], q)
        field_tags == FindAll([kind |-> "field_tag"], q)
    IN  /\ Count(q, "(") = Count(q, ")")
        /\ \A k \in 1..Len(operators) : operators[k] = Upper(operators[k])
        /\ \A k \in 1..Len(field_tags) :
                Slice(field_tags[k], 2, Len(field_tags[k]) - 2)
                    \in valid_field_tags

is_proper_pubmed_search(q) ==
    LET operators  == FindAll([kind |-> "operator"], q)
        field_tags == FindAll([kind |-> "field_tag"], q)
    IN  IF Count(q, "(") # Count(q, ")") THEN FALSE
        ELSE IF Count(q, "\"") % 2 # 0 THEN FALSE
        ELSE IF \E k \in 1..Len(operators) :
                    operators[k] # Upper(operators[k]) THEN FALSE
        ELSE IF ~(\A k \in 1..Len(field_tags) :
                    Slice(field_tags[k], 2, Len(field_tags[k]) - 2)
                        \in valid_field_tags) THEN FALSE
        ELSE IF \E k \in 1..Len(field_tags) :
                    FieldTagMatchLen(field_tags[k], 1) = 0 THEN FALSE
        ELSE TRUE

-----------------------------------------------------------------------------
(* DBSearcher.__convert_pubmed_to_embase *)

T_TitleAbstract == <<"[","T","i","t","l","e","/","A","b","s","t","r","a","c","t","]">>

T_Title == <<"[","T","i","t","l","e","]">>

T_Abstract == <<"[","A","b","s","t","r","a","c","t","]">>

T_Mesh == <<"[","M","e","s","h","]">>

T_mh == <<"[","m","h","]">>

E_tiabkw == <<":","t","i",",","a","b",",","k","w">>

E_tikw == <<":","t","i",",","k","w">>

E_abkw == <<":","a","b",",","k","w">>

E_mj == <<"/","m","j">>

\* the dict, in insertion order: <<PubMed tag, Embase operator>>
field_tag_mapping ==
    << <<T_TitleAbstract, E_tiabkw>>,
       <<T_Title, E_tikw>>,
       <<T_Abstract, E_abkw>>,
       <<T_Mesh, E_mj>>,
       <<T_mh, E_mj>> >>

\* str.strip()
Strip(s) ==
    LET keep == {i \in 1..Len(s) : ~IsSpace(s[i])}
    IN  IF keep = {} THEN <<>>
        ELSE SubSeq(s, CHOOSE i \in keep : \A j \in keep : i <= j,
                       CHOOSE i \in keep : \A j \in keep : i >= j)

\* the callback of step 1
add_quotes(match) ==
    LET term == Strip(match)
    IN  IF ~(Len(term) >= 1 /\ term[1] = "'")
        THEN <<"'">> \o Lower(term) \o <<"'">>
        ELSE term

\* what re.sub puts in place of the match m of pat
Replacement(pat, m) ==
    CASE pat.kind = "term"     -> add_quotes(m)
      [] pat.kind = "literal"  -> pat.repl
      [] pat.kind = "operator" -> Upper(m)
      [] pat.kind = "space"    -> <<" ">>
      [] pat.kind = "words"    -> <<"'">> \o m \o <<"'">>

\* re.sub(pat, repl, s) for a pattern that matches no empty string: every
\* match the scan finds is replaced, every other character is kept
SubWith(pat, lens, starts, s) ==
    LET at == {starts[k] : k \in 1..Len(starts)}
        piece(p) ==
            IF p \in at THEN Replacement(pat, Slice(s, p, lens[p]))
            ELSE IF \E q \in at : q < p /\ p < q + lens[q] THEN <<>>
            ELSE <<s[p]>>
    IN  ConcatRange([p \in 1..Len(s) |-> piece(p)], 1, Len(s))

Sub(pat, s) ==
    SubWith(pat, MatchLens(pat, s), MatchStartsFrom(MatchLens(pat, s), 1), s)

\* re.sub(r"\b\b", lambda x: f"'{x.group(0)}'", s): the pattern step 5 builds
\* from an empty word list matches the empty string at every word boundary
SubAtBoundaries(s) ==
    ConcatRange([p \in 1..(Len(s) + 1) |->
                    (IF WordBoundary(s, p) THEN <<"'", "'">> ELSE <<>>)
                    \o (IF p <= Len(s) THEN <<s[p]>> ELSE <<>>)],
                1, Len(s) + 1)

\* the for loop of step 2 over the first n entries of field_tag_mapping
RECURSIVE ReplaceTags(_, _)
ReplaceTags(s, n) ==
    IF n = 0 THEN s
    ELSE Sub([kind |-> "literal", lit |-> field_tag_mapping[n][1],
              repl |-> field_tag_mapping[n][2]], ReplaceTags(s, n - 1))

\* reduce(lambda a, b: a.replace(b, ""), l, string) over the first n of l
RECURSIVE remove_strings(_, _, _)
remove_strings(string, l, n) ==
    IF n = 0 THEN string
    ELSE Sub([kind |-> "literal", lit |-> l[n], repl |-> <<>>],
             remove_strings(string, l, n - 1))

\* str.split(c): the pieces between the occurrences of c, from position i
RECURSIVE SplitFrom(_, _, _)
SplitFrom(s, c, i) ==
    LET n == RunNotIn(s, i, {c})
    IN  IF i + n > Len(s) THEN <<Slice(s, i, n)>>
        ELSE <<Slice(s, i, n)>> \o SplitFrom(s, c, i + n + 1)

\* str.split(): the maximal runs of non-whitespace, from position i
RECURSIVE SplitWhitespaceFrom(_, _)
SplitWhitespaceFrom(s, i) ==
    IF i > Len(s) THEN <<>>
    ELSE IF IsSpace(s[i]) THEN SplitWhitespaceFrom(s, i + RunIn(s, i, SpaceSet))
    ELSE LET n == RunNotIn(s, i, SpaceSet)
         IN  <<Slice(s, i, n)>> \o SplitWhitespaceFrom(s, i + n)

\* [word for sublist in lists for word in sublist]
RECURSIVE Flatten(_)
Flatten(lists) ==
    IF lists = <<>> THEN <<>> ELSE Head(lists) \o Flatten(Tail(lists))

\* [f(x) for x in seq if keep(x)] with keep given as a set of indices
RECURSIVE SelectIdx(_, _, _)
SelectIdx(seq, keep, i) ==
    IF i > Len(seq) THEN <<>>
    ELSE (IF i \in keep THEN <<seq[i]>> ELSE <<>>) \o SelectIdx(seq, keep, i + 1)

\* the words step 5 collects from the query as it stands after step 4
words_to_quote(embase_query_4) ==
    LET l        == <<S_OR, S_AND, S_NOT, <<"(">>, <<")">>>>
                    \o [k \in 1..Len(field_tag_mapping) |-> field_tag_mapping[k][2]]
        pieces   == SplitFrom(remove_strings(embase_query_4, l, Len(l)), "'", 1)
        nonblank == SelectIdx(pieces,
                        {k \in 1..Len(pieces) : Strip(pieces[k]) # <<>>}, 1)
        unquoted == SelectIdx(nonblank,
                        {k \in 1..Len(nonblank) :
                            /\ nonblank[k][1] \notin QuoteSet
                            /\ nonblank[k][Len(nonblank[k])] \notin QuoteSet}, 1)
    IN  Flatten([k \in 1..Len(unquoted) |-> SplitWhitespaceFrom(unquoted[k], 1)])

\* step 1: quote the terms the pattern finds
step1(pubmed_query) == Sub([kind |-> "term"], pubmed_query)

\* step 2: field tags
step2(s) == ReplaceTags(s, Len(field_tag_mapping))

\* step 3: r"\b(and|or|not)\b" with re.IGNORECASE, upper-cased
step3(s) == Sub([kind |-> "operator"], s)

\* step 4: r"\s+" -> " "
step4(s) == Sub([kind |-> "space"], s)

\* step 5 applied to the text without its parentheses
step5_OnStrippedText(s) ==
    LET words == words_to_quote(s)
        base  == remove_strings(s, << <<"(">>, <<")">> >>, 2)
    IN  IF words = <<>> THEN SubAtBoundaries(base)
        ELSE Sub([kind |-> "words",
                  alts |-> [k \in 1..Len(words) |-> WordAtoms(words[k], 1)]],
                 base)

\* step 5: single quotes around every word of words_to_quote
step5(s) ==
    LET words == words_to_quote(s)
    IN  IF words = <<>> THEN SubAtBoundaries(s)
        ELSE Sub([kind |-> "words",
                  alts |-> [k \in 1..Len(words) |-> WordAtoms(words[k], 1)]], s)

\* last step: re.sub(r'"', "", s)
step6(s) == Sub([kind |-> "literal", lit |-> <<"\"">>, repl |-> <<>>], s)

convert_pubmed_to_embase(pubmed_query) ==
    step6(step5(step4(step3(step2(step1(pubmed_query))))))

-----------------------------------------------------------------------------
(* Initial values of the variables a specification does not use yet *)

NormIdle == raw = <<>> /\ normalized = <<>>

SearchIdle ==
    /\ pubmed_ids = <<>> /\ articles = <<>> /\ pubmed_details = <<>>
    /\ embase_results = <<>> /\ embase_details = <<>>
    /\ results_data = <<>> /\ returned = <<>>
    /\ calls = <<>> /\ failed = {}

\* every concatenation of at most n of the pieces
Concatenations(pieces, n) ==
    {ConcatRange(t, 1, Len(t)) : t \in UNION {[1..k -> pieces] : k \in 0..n}}

-----------------------------------------------------------------------------
(* SpecValidate: __is_proper_pubmed_search applied to every query that is a *)
(* concatenation of at most MaxValidateTokens of the pieces below.          *)

MaxValidateTokens == 4

ValidateTokens ==
    { <<"(">>, <<")">>, <<"\"">>, <<" ">>, <<"[">>, <<"]">>,
      <<"O","R">>, <<"O","r">>, <<"m","h">>, <<"k","w">> }

ValidateInit ==
    /\ pc = "validate"
    /\ query \in Concatenations(ValidateTokens, MaxValidateTokens)
    /\ valid = FALSE
    /\ embase_query = <<>>
    /\ NormIdle /\ SearchIdle

Validate ==
    /\ pc = "validate"
    /\ valid' = is_proper_pubmed_search(query)
    /\ pc' = "validated"
    /\ UNCHANGED <<query, embase_query, normVars, searchVars>>

SpecValidate == ValidateInit /\ [][Validate]_vars

-----------------------------------------------------------------------------
(* SpecTranslate: __convert_pubmed_to_embase applied to every query that   *)
(* passes the validator and is a concatenation of at most                  *)
(* MaxTranslateTokens of the pieces below: a quoted phrase, bare words     *)
(* (lower case, upper case, one holding the letters OR), an operator,      *)
(* parentheses and field tags.                                             *)

MaxTranslateTokens == 3

Phrase == <<"\"","a","b"," ","c","d","\"">>

TranslateTokens ==
    { Phrase, <<"a","b">>, <<"F","O","R">>, <<"M","P">>,
      <<" ","O","R"," ">>, <<" ">>, <<"(">>, <<")">>,
      T_TitleAbstract, T_mh, <<"[","t","i","a","b","]">> }

TranslateInit ==
    /\ pc = "translate"
    /\ query \in {q \in Concatenations(TranslateTokens, MaxTranslateTokens) :
                    is_proper_pubmed_search(q)}
    /\ valid = TRUE
    /\ embase_query = <<>>
    /\ NormIdle /\ SearchIdle

Translate ==
    /\ pc = "translate"
    /\ embase_query' = convert_pubmed_to_embase(query)
    /\ pc' = "translated"
    /\ UNCHANGED <<query, valid, normVars, searchVars>>

SpecTranslate == TranslateInit /\ [][Translate]_vars

-----------------------------------------------------------------------------
(* SpecParens: __convert_pubmed_to_embase applied to every validated query *)
(* that is a concatenation of at most MaxParenTokens of the pieces below:  *)
(* parentheses, a term with an operator, a parenthesised term, a quoted    *)
(* phrase with a field tag, and a space.                                   *)

MaxParenTokens == 4

ParenTokens ==
    { <<"(">>, <<")">>, <<" ">>,
      <<"a","b"," ","O","R"," ">>,
      <<"(","M","P",")">>,
      Phrase \o T_TitleAbstract }

ParensInit ==
    /\ pc = "translate"
    /\ query \in {q \in Concatenations(ParenTokens, MaxParenTokens) :
                    is_proper_pubmed_search(q)}
    /\ valid = TRUE
    /\ embase_query = <<>>
    /\ NormIdle /\ SearchIdle

SpecParens == ParensInit /\ [][Translate]_vars

-----------------------------------------------------------------------------
(* Properties of the validator *)

ParensBalanced(q) == Count(q, "(") = Count(q, ")")

QuotesEven(q) == Count(q, "\"") % 2 = 0

\* every whole-word occurrence of and/or/not, in any letter case, is written
\* in upper case
OperatorsUpperCase(q) ==
    \A i \in 1..Len(q), k \in 1..3 :
        LET w == operator_alternatives[k]
        IN  (/\ WordBoundary(q, i)
             /\ LitAtIgnoreCase(q, i, w)
             /\ WordBoundary(q, i + Len(w))) => LitAt(q, i, w)

\* q[i..j] is "[", one or more word characters, "]"
IsBracketedTag(q, i, j) ==
    /\ q[i] = "[" /\ q[j] = "]" /\ j > i + 1
    /\ \A k \in (i + 1)..(j - 1) : IsWordChar(q[k])

TagsWhitelisted(q) ==
    \A i, j \in 1..Len(q) :
        IsBracketedTag(q, i, j) => SubSeq(q, i + 1, j - 1) \in valid_field_tags

\* C1: the validator returns true exactly when the four rules hold together:
\* balanced parentheses, an even number of double quotes, upper-case
\* operators, and whitelisted bracketed tags.
C1_ValidIffAllRules ==
    pc = "validated" =>
        (valid <=> (/\ ParensBalanced(query)
                    /\ QuotesEven(query)
                    /\ OperatorsUpperCase(query)
                    /\ TagsWhitelisted(query)))

\* a query that holds an upper-case operator is rejected although only the
\* tag rule fails
C1_Witness ==
    /\ pc = "validated" /\ ~valid
    /\ ParensBalanced(query) /\ QuotesEven(query) /\ OperatorsUpperCase(query)
    /\ \E i \in 1..Len(query) :
            LitAt(query, i, S_OR) /\ WordBoundary(query, i)
                /\ WordBoundary(query, i + 2)
    /\ ~TagsWhitelisted(query)

-----------------------------------------------------------------------------
(* Properties of the converter *)

Contains(s, lit) == \E i \in 1..Len(s) : LitAt(s, i, lit)

\* q[i..j] is a double-quoted phrase: an opening quote (an even number of
\* quotes precede it), text without quotes, the closing quote
IsPhrase(q, i, j) ==
    /\ i + 1 < j /\ q[i] = "\"" /\ q[j] = "\""
    /\ \A k \in (i + 1)..(j - 1) : q[k] # "\""
    /\ Cardinality({k \in 1..(i - 1) : q[k] = "\""}) % 2 = 0

\* the words joined by single spaces
RECURSIVE JoinWords(_)
JoinWords(words) ==
    IF words = <<>> THEN <<>>
    ELSE IF Len(words) = 1 THEN words[1]
    ELSE words[1] \o <<" ">> \o JoinWords(Tail(words))

\* text stands in s at position p between one pair of single quotes, with no
\* further quote character next to the pair; letter case is not compared
SingleQuotedAt(s, p, text) ==
    /\ LitAtIgnoreCase(s, p, <<"'">> \o text \o <<"'">>)
    /\ ~(p > 1 /\ s[p - 1] \in QuoteSet)
    /\ ~(p + Len(text) + 2 <= Len(s) /\ s[p + Len(text) + 2] \in QuoteSet)

SingleQuoted(s, text) == \E p \in 1..Len(s) : SingleQuotedAt(s, p, text)

\* C7: when a double-quoted phrase is directly followed by [Title/Abstract],
\* the output holds the operator :ti,ab,kw intact right after the phrase's
\* closing quote, and holds no [Title/Abstract] tag.
C7_TitleAbstractOperatorIntact ==
    (/\ pc = "translated"
     /\ \E i, j \in 1..Len(query) :
            IsPhrase(query, i, j) /\ LitAt(query, j + 1, T_TitleAbstract))
    => (/\ Contains(embase_query, <<"'">> \o E_tiabkw)
        /\ ~Contains(embase_query, T_TitleAbstract))

\* C8: every double-quoted phrase of the query stands in the output as one
\* single-quoted phrase: its words in order, separated by single spaces,
\* between one pair of single quotes.
C8_PhraseKeptAsOnePhrase ==
    pc = "translated" =>
        \A i, j \in 1..Len(query) :
            IsPhrase(query, i, j) =>
                SingleQuoted(embase_query,
                    JoinWords(SplitWhitespaceFrom(SubSeq(query, i + 1, j - 1), 1)))

\* q[i..i+n-1] is a bare word: a maximal run of word characters outside
\* double quotes and outside a bracketed tag, other than AND, OR, NOT
IsBareWord(q, i, n) ==
    /\ n >= 1 /\ i + n - 1 <= Len(q)
    /\ \A k \in i..(i + n - 1) : IsWordChar(q[k])
    /\ WordBoundary(q, i) /\ WordBoundary(q, i + n)
    /\ Cardinality({k \in 1..(i - 1) : q[k] = "\""}) % 2 = 0
    /\ ~\E a \in 1..(i - 1) : q[a] = "[" /\ \A k \in a..(i - 1) : q[k] # "]"
    /\ Slice(q, i, n) \notin {S_AND, S_OR, S_NOT}

\* q holds the operator op at i as a whole word outside double quotes
IsOperatorAt(q, i, op) ==
    /\ LitAt(q, i, op) /\ WordBoundary(q, i) /\ WordBoundary(q, i + Len(op))
    /\ Cardinality({k \in 1..(i - 1) : q[k] = "\""}) % 2 = 0

\* C9: every bare word of the query stands in the output between exactly one
\* pair of single quotes, and the operators AND, OR, NOT stay unquoted.
C9_BareWordsQuotedOnce ==
    pc = "translated" =>
        /\ \A i, n \in 1..Len(query) :
                IsBareWord(query, i, n) =>
                    SingleQuoted(embase_query, Slice(query, i, n))
        /\ \A i \in 1..Len(query), k \in 1..3 :
                IsOperatorAt(query, i, operator_alternatives[k]) =>
                    ~Contains(embase_query,
                        <<"'">> \o operator_alternatives[k] \o <<"'">>)

\* s holds a bracketed tag: "[", one or more word characters, "]"
HasBracketedTag(s) == \E i, j \in 1..Len(s) : IsBracketedTag(s, i, j)

\* C11: every bracketed field tag of a validated query is replaced by its
\* Embase operator, so the output of the converter holds no bracketed tag.
C11_AcceptedTagsTranslated ==
    pc = "translated" =>
        /\ ~HasBracketedTag(embase_query)
        /\ \A k \in 1..Len(field_tag_mapping) :
                ~Contains(embase_query, field_tag_mapping[k][1])

\* C12: every bare term of the query stands in the output lower-cased
\* between single quotes, and a term with upper-case letters does not occur
\* in the output as it was typed.
C12_BareTermsLowerCased ==
    pc = "translated" =>
        \A i, n \in 1..Len(query) :
            IsBareWord(query, i, n) =>
                LET term == Slice(query, i, n)
                IN  /\ Contains(embase_query,
                                <<"'">> \o Lower(term) \o <<"'">>)
                    /\ term # Lower(term) => ~Contains(embase_query, term)

ParenSet == {"(", ")"}

IsParen(c) == c \in ParenSet

IsNoQuote(c) == c \notin QuoteSet

\* the parentheses of s, left to right
ParenSequence(s) == SelectSeq(s, IsParen)

\* the positions of d that belong to a bracketed tag or to an Embase
\* operator string
TagPositions(d) ==
    {p \in 1..Len(d) :
        \/ \E k \in 1..Len(field_tag_mapping), a \in 1..p :
                /\ LitAt(d, a, field_tag_mapping[k][2])
                /\ p < a + Len(field_tag_mapping[k][2])
        \/ \E a \in 1..p, b \in p..Len(d) :
                /\ d[a] = "[" /\ d[b] = "]"
                /\ \A m \in (a + 1)..(b - 1) : d[m] \notin {"[", "]"}}

\* the terms and operators of s, each with its rank among them and the
\* number of parentheses to its left; quote characters and letter case are
\* left aside, tags and Embase operator strings are no terms
TermsByParens(s) ==
    LET d      == SelectSeq(s, IsNoQuote)
        tags   == TagPositions(d)
        starts == {i \in 1..Len(d) :
                    /\ i \notin tags /\ IsWordChar(d[i])
                    /\ (i = 1 \/ ~IsWordChar(d[i - 1]) \/ (i - 1) \in tags)}
    IN  { << Cardinality({j \in starts : j <= i}),
             Cardinality({m \in 1..i : d[m] \in ParenSet}),
             Lower(Slice(d, i, RunIn(d, i, WordCharSet))) >> : i \in starts }

\* C13: the parentheses of the output of the converter, read left to right,
\* are those of the query, and every term and operator stands between the
\* same two parentheses as in the query, in the same order.
C13_ParenthesesKept ==
    pc = "translated" =>
        /\ ParenSequence(embase_query) = ParenSequence(query)
        /\ TermsByParens(embase_query) = TermsByParens(query)

\* nested parentheses with terms at both levels, quoted by the converter
C13_Witness ==
    /\ pc = "translated"
    /\ embase_query # query
    /\ \E i, j \in 1..Len(query) :
            /\ i < j /\ query[i] = "(" /\ query[j] = "("
            /\ \A m \in i..j : query[m] # ")"
            /\ \E m \in (i + 1)..(j - 1) : IsWordChar(query[m])
    /\ \E t \in TermsByParens(query) : t[2] >= 2

-----------------------------------------------------------------------------
(* Raw records and their extraction                                        *)
(*                                                                         *)
(* An optional part of a raw record (an XML element that may be missing, a *)
(* dict key that may be missing) is a sequence of length 0 or 1.           *)

Missing == <<>>

Present(x) == <<x>>

\* Python's None as the value of a field
PyNone == <<"None">>

NoTitle ==
    <<"N","o"," ","t","i","t","l","e"," ","a","v","a","i","l","a","b",
      "l","e">>

NoAbstract ==
    <<"N","o"," ","a","b","s","t","r","a","c","t"," ","a","v","a","i",
      "l","a","b","l","e">>

NoAuthor ==
    <<"N","o"," ","a","u","t","h","o","r"," ","a","v","a","i","l","a",
      "b","l","e">>

NoLink ==
    <<"N","o"," ","l","i","n","k"," ","a","v","a","i","l","a","b","l",
      "e">>

NoID ==
    <<"N","o"," ","I","D"," ","a","v","a","i","l","a","b","l","e">>

PubmedLinkPrefix ==
    <<"h","t","t","p","s",":","/","/","p","u","b","m","e","d",".","n",
      "c","b","i",".","n","l","m",".","n","i","h",".","g","o","v","/">>

\* f"https://pubmed.ncbi.nlm.nih.gov/{id}/"
PubmedLink(id) == PubmedLinkPrefix \o id \o <<"/">>

\* " ".join(items)
RECURSIVE JoinSpace(_)
JoinSpace(items) ==
    IF items = <<>> THEN <<>>
    ELSE IF Len(items) = 1 THEN items[1]
    ELSE items[1] \o <<" ">> \o JoinSpace(Tail(items))

\* A PubmedArticle node:
\*   [PMID, ArticleTitle, Abstract, Authors], where ArticleTitle and Abstract
\*   are the optional element's concatenated text, and every author has an
\*   optional LastName element whose .text is a string or None (Missing).

\* DBSearcher.__get_full_title
get_full_title(article) ==
    IF article.ArticleTitle # Missing
    THEN Strip(article.ArticleTitle[1])
    ELSE NoTitle

\* DBSearcher.__get_full_abstract
get_full_abstract(article) ==
    IF article.Abstract # Missing
    THEN Strip(article.Abstract[1])
    ELSE NoAbstract

\* the body of the for loop of __fetch_pubmed_details: one tuple per node
pubmed_detail(article) ==
    LET authors == article.Authors
        first_author_lastname ==
            IF authors # <<>> /\ authors[1].LastName # Missing
            THEN (IF authors[1].LastName[1] = Missing THEN PyNone
                  ELSE authors[1].LastName[1][1])
            ELSE NoAuthor
    IN  <<get_full_title(article), get_full_abstract(article),
          first_author_lastname>>

\* DBSearcher.__fetch_pubmed_details on the nodes of the response
fetch_pubmed_details(ids, nodes) ==
    IF ids = <<>> THEN <<>>
    ELSE [k \in 1..Len(nodes) |-> pubmed_detail(nodes[k])]

\* An Embase document:
\*   [titleText, abstracts, authors, doi, medl]: titleText is the optional
\*   list head.citationTitle.titleText of entries [ttltext], abstracts the
\*   optional list head.abstracts.abstracts of entries [paras], authors the
\*   optional list head.authorList.authors of entries [surname]; doi and medl
\*   are the optional entries of itemInfo.itemIdList.

\* what {}[0] and [][0] raise
IndexZero(container) ==
    IF container = Missing THEN "KeyError"
    ELSE IF container[1] = <<>> THEN "IndexError"
    ELSE ""

\* DBSearcher.__fetch_embase_details: the exception it raises ("" for none)
\* and the tuple it returns
fetch_embase_details(data) ==
    LET title ==
            IF data.titleText[1][1].ttltext = Missing THEN NoTitle
            ELSE data.titleText[1][1].ttltext[1]
        abstract ==
            IF IndexZero(data.abstracts) # "" THEN NoAbstract
            ELSE IF data.abstracts[1][1].paras = Missing
                 THEN JoinSpace([k \in 1..Len(NoAbstract) |-> <<NoAbstract[k]>>])
                 ELSE JoinSpace(data.abstracts[1][1].paras[1])
        first_author_lastname ==
            IF IndexZero(data.authors) # "" THEN NoAuthor
            ELSE IF data.authors[1][1].surname = Missing THEN NoAuthor
                 ELSE data.authors[1][1].surname[1]
        doi  == IF data.doi = Missing THEN NoLink ELSE data.doi[1]
        id   == IF data.medl = Missing THEN NoID ELSE data.medl[1]
        link == IF doi = NoLink /\ id # NoID THEN PubmedLink(id) ELSE doi
    IN  IF IndexZero(data.titleText) # ""
        THEN [raises |-> IndexZero(data.titleText), value |-> <<>>]
        ELSE [raises |-> "",
              value  |-> <<id, title, abstract, first_author_lastname, link>>]

-----------------------------------------------------------------------------
(* SpecNormalize: the two extraction functions applied to one raw record,  *)
(* drawn from every combination of present, missing and empty parts.       *)

TextTitle == <<"T","i">>

TextAbstract == <<"A","b","s">>

TextName == <<"L","e","e">>

TextDoi == <<"d","x">>

TextMedl == <<"7">>

PubmedNodes ==
    [ PMID         : {TextMedl},
      ArticleTitle : {Missing, Present(<<>>), Present(TextTitle)},
      Abstract     : {Missing, Present(TextAbstract)},
      Authors      : { <<>>,
                       <<[LastName |-> Missing]>>,
                       <<[LastName |-> Present(Missing)]>>,
                       <<[LastName |-> Present(Present(TextName))]>> } ]

EmbaseDocs ==
    [ titleText : { Missing, Present(<<>>),
                    Present(<<[ttltext |-> Missing]>>),
                    Present(<<[ttltext |-> Present(TextTitle)]>>) },
      abstracts : { Missing, Present(<<>>),
                    Present(<<[paras |-> Missing]>>),
                    Present(<<[paras |-> Present(<<>>)]>>),
                    Present(<<[paras |-> Present(<<TextAbstract, TextAbstract>>)]>>) },
      authors   : { Missing, Present(<<>>),
                    Present(<<[surname |-> Missing]>>),
                    Present(<<[surname |-> Present(TextName)]>>) },
      doi       : {Missing, Present(TextDoi)},
      medl      : {Missing, Present(TextMedl)} ]

NormalizeInit ==
    /\ pc = "raw"
    /\ raw \in ([source : {"PubMed"}, data : PubmedNodes]
                    \cup [source : {"Embase"}, data : EmbaseDocs])
    /\ normalized = <<>>
    /\ query = <<>> /\ valid = FALSE /\ embase_query = <<>>
    /\ SearchIdle

\* one iteration of the loop of __fetch_pubmed_details
NormalizePubmed ==
    /\ pc = "raw" /\ raw.source = "PubMed"
    /\ normalized' = [raises |-> "", value |-> pubmed_detail(raw.data)]
    /\ pc' = "normalized"
    /\ UNCHANGED <<raw, queryVars, searchVars>>

\* one call of __fetch_embase_details
NormalizeEmbase ==
    /\ pc = "raw" /\ raw.source = "Embase"
    /\ normalized' = fetch_embase_details(raw.data)
    /\ pc' = "normalized"
    /\ UNCHANGED <<raw, queryVars, searchVars>>

NormalizeNext == NormalizePubmed \/ NormalizeEmbase

SpecNormalize == NormalizeInit /\ [][NormalizeNext]_vars

\* C10: a raw record with an optional field absent, or with the list that
\* holds it empty, is extracted without an exception and the field is its
\* sentinel string.
C10_MissingFieldBecomesSentinel ==
    pc = "normalized" =>
        /\ normalized.raises = ""
        /\ raw.source = "PubMed" =>
            LET d == raw.data  v == normalized.value
            IN  /\ d.ArticleTitle = Missing => v[1] = NoTitle
                /\ d.Abstract = Missing => v[2] = NoAbstract
                /\ (d.Authors = <<>> \/ d.Authors[1].LastName = Missing)
                        => v[3] = NoAuthor
        /\ raw.source = "Embase" =>
            LET d == raw.data  v == normalized.value
                absent(list, key) ==
                    \/ list = Missing
                    \/ list[1] = <<>>
                    \/ list[1][1][key] = Missing
            IN  /\ absent(d.titleText, "ttltext") => v[2] = NoTitle
                /\ absent(d.abstracts, "paras") => v[3] = NoAbstract
                /\ absent(d.authors, "surname") => v[4] = NoAuthor
                /\ (d.doi = Missing /\ d.medl = Missing) => v[5] = NoLink

-----------------------------------------------------------------------------
(* DBSearcher.search: rows and deduplication *)

NoDetails == <<NoTitle, NoAbstract, NoAuthor>>

\* the first for loop of search(): one row per PubMed id
pubmed_rows(q, ids, details) ==
    [i \in 1..Len(ids) |->
        LET d == IF i <= Len(details) THEN details[i] ELSE NoDetails
        IN  [Source |-> "PubMed", Author |-> d[3], Title |-> d[1],
             Abstract |-> d[2], ID |-> ids[i], Link |-> PubmedLink(ids[i]),
             Query |-> q]]

\* the second for loop of search(): one row per Embase document
embase_rows(eq, results, details) ==
    [i \in 1..Len(results) |->
        [Source |-> "Embase", Author |-> details[i][4], Title |-> details[i][2],
         Abstract |-> details[i][3], ID |-> details[i][1],
         Link |-> details[i][5], Query |-> eq]]

IsLowerLetter(c) == c \in LowerSet

\* the normalization without .str.lower()
normalized_text_CaseSensitive(t) == SelectSeq(t, IsLowerLetter)

\* .str.lower().str.replace(r'[^a-z]', '', regex=True)
normalized_text(t) == SelectSeq(Lower(t), IsLowerLetter)

\* drop_duplicates(..., keep='last')
drop_duplicates_KeepLast(rows) ==
    LET key(i) == <<normalized_text(rows[i].Title),
                    normalized_text(rows[i].Author)>>
    IN  SelectIdx(rows,
            {i \in 1..Len(rows) :
                \A j \in (i + 1)..Len(rows) : key(j) # key(i)}, 1)

\* drop_duplicates(subset=['Normalized_Title', 'Normalized_Author'],
\*                 keep='first')
drop_duplicates(rows) ==
    LET key(i) == <<normalized_text(rows[i].Title),
                    normalized_text(rows[i].Author)>>
    IN  SelectIdx(rows,
            {i \in 1..Len(rows) : \A j \in 1..(i - 1) : key(j) # key(i)}, 1)

-----------------------------------------------------------------------------
(* Spec: one call of DBSearcher.search.  The query, the answers of the two *)
(* services and their failures are chosen freely within the bounds.        *)

\* at most this many ids in the answer of esearch
MaxIds == 2

\* at most this many documents in the answer of the Embase search
MaxDocs == 2

Q_ab == <<"a","b">>

SearchQueries ==
    { Q_ab \o T_mh,
      Phrase \o T_TitleAbstract \o <<" ","O","R"," ">> \o <<"M","P">>,
      <<"(">> \o Q_ab \o <<" ","o","r"," ">> \o Q_ab }

Pmids == {<<"1">>, <<"2">>, <<"3">>}

\* the PubmedArticle node efetch holds for each id: 1 and 2 have the same
\* normalized title and author, 3 has no title, abstract or author
ArticleOf(pmid) ==
    CASE pmid = <<"1">> ->
            [PMID |-> pmid, ArticleTitle |-> Present(<<"A","-","b">>),
             Abstract |-> Present(TextAbstract),
             Authors |-> <<[LastName |-> Present(Present(<<"D">>))]>>]
      [] pmid = <<"2">> ->
            [PMID |-> pmid, ArticleTitle |-> Present(<<"a","b"," ">>),
             Abstract |-> Missing,
             Authors |-> <<[LastName |-> Present(Present(<<"d",".">>))]>>]
      [] OTHER ->
            [PMID |-> pmid, ArticleTitle |-> Missing, Abstract |-> Missing,
             Authors |-> <<>>]

\* the sequences without repetition of at most n elements of S
DistinctSeqs(S, n) ==
    {t \in UNION {[1..k -> S] : k \in 0..n} :
        \A i, j \in 1..Len(t) : i # j => t[i] # t[j]}

\* the documents the Embase search can return: the first has the normalized
\* title and author of PubMed articles 1 and 2, the second and third share
\* theirs, the last has no citation title
EmbaseAnswers ==
    { [titleText |-> Present(<<[ttltext |-> Present(<<"A","b">>)]>>),
       abstracts |-> Present(<<[paras |-> Present(<<TextAbstract>>)]>>),
       authors |-> Present(<<[surname |-> Present(<<"D">>)]>>),
       doi |-> Present(TextDoi), medl |-> Missing],
      [titleText |-> Present(<<[ttltext |-> Present(<<"c">>)]>>),
       abstracts |-> Missing,
       authors |-> Present(<<[surname |-> Present(<<"D">>)]>>),
       doi |-> Missing, medl |-> Present(TextMedl)],
      [titleText |-> Present(<<[ttltext |-> Present(<<"C","!">>)]>>),
       abstracts |-> Present(<<>>),
       authors |-> Present(<<[surname |-> Present(<<"d">>)]>>),
       doi |-> Missing, medl |-> Missing],
      [titleText |-> Missing,
       abstracts |-> Missing,
       authors |-> Present(<<[surname |-> Present(TextName)]>>),
       doi |-> Present(TextDoi), medl |-> Missing] }

Init ==
    /\ pc = "start"
    /\ query \in SearchQueries
    /\ valid = FALSE
    /\ embase_query = <<>>
    /\ NormIdle /\ SearchIdle

\* search() without the early return of lines 316-322
ValidateQuery_NoGate ==
    /\ pc = "start"
    /\ valid' = is_proper_pubmed_search(query)
    /\ calls' = Append(calls, "validate")
    /\ pc' = "search_pubmed"
    /\ UNCHANGED <<query, embase_query, normVars, pubmed_ids, articles,
                   pubmed_details, embase_results, embase_details,
                   results_data, returned, failed>>

\* lines 315-322: the validator gates everything else
ValidateQuery ==
    /\ pc = "start"
    /\ valid' = is_proper_pubmed_search(query)
    /\ calls' = Append(calls, "validate")
    /\ pc' = IF valid' THEN "search_pubmed" ELSE "done"
    /\ UNCHANGED <<query, embase_query, normVars, pubmed_ids, articles,
                   pubmed_details, embase_results, embase_details,
                   results_data, returned, failed>>

\* line 326: __search_pubmed returns an id list
SearchPubmedReturns ==
    /\ pc = "search_pubmed"
    /\ \E ids \in DistinctSeqs(Pmids, MaxIds) : pubmed_ids' = ids
    /\ calls' = Append(calls, "search_pubmed")
    /\ pc' = "fetch_pubmed"
    /\ UNCHANGED <<queryVars, normVars, articles, pubmed_details,
                   embase_results, embase_details, results_data, returned,
                   failed>>

\* lines 326, 328-332: __search_pubmed raises
SearchPubmedRaises ==
    /\ pc = "search_pubmed"
    /\ calls' = Append(calls, "search_pubmed")
    /\ pubmed_ids' = <<>>
    /\ pubmed_details' = <<>>
    /\ failed' = failed \cup {"PubMed"}
    /\ pc' = "translate"
    /\ UNCHANGED <<queryVars, normVars, articles, embase_results,
                   embase_details, results_data, returned>>

\* line 327: __fetch_pubmed_details returns; the response holds nodes for
\* some of the ids asked for, in some order (no request for an empty list)
FetchPubmedReturns ==
    /\ pc = "fetch_pubmed"
    /\ \E got \in DistinctSeqs({pubmed_ids[k] : k \in 1..Len(pubmed_ids)},
                               Len(pubmed_ids)) :
            /\ articles' = [k \in 1..Len(got) |-> ArticleOf(got[k])]
            /\ pubmed_details' = fetch_pubmed_details(pubmed_ids, articles')
    /\ calls' = Append(calls, "fetch_pubmed_details")
    /\ pc' = "translate"
    /\ UNCHANGED <<queryVars, normVars, pubmed_ids, embase_results,
                   embase_details, results_data, returned, failed>>

\* an except branch that empties pubmed_details only
FetchPubmedRaises_KeepsIds ==
    /\ pc = "fetch_pubmed"
    /\ pubmed_ids # <<>>
    /\ calls' = Append(calls, "fetch_pubmed_details")
    /\ pubmed_details' = <<>>
    /\ failed' = failed \cup {"PubMed"}
    /\ pc' = "translate"
    /\ UNCHANGED <<queryVars, normVars, pubmed_ids, articles, embase_results,
                   embase_details, results_data, returned>>

\* lines 327-332: the request of __fetch_pubmed_details raises
FetchPubmedRaises ==
    /\ pc = "fetch_pubmed"
    /\ pubmed_ids # <<>>
    /\ calls' = Append(calls, "fetch_pubmed_details")
    /\ pubmed_ids' = <<>>
    /\ pubmed_details' = <<>>
    /\ failed' = failed \cup {"PubMed"}
    /\ pc' = "translate"
    /\ UNCHANGED <<queryVars, normVars, articles, embase_results,
                   embase_details, results_data, returned>>

\* line 335
TranslateQuery ==
    /\ pc = "translate"
    /\ embase_query' = convert_pubmed_to_embase(query)
    /\ calls' = Append(calls, "translate")
    /\ pc' = "search_embase"
    /\ UNCHANGED <<query, valid, normVars, pubmed_ids, articles,
                   pubmed_details, embase_results, embase_details,
                   results_data, returned, failed>>

\* line 339: __search_embase returns a document list
SearchEmbaseReturns ==
    /\ pc = "search_embase"
    /\ \E docs \in UNION {[1..k -> EmbaseAnswers] : k \in 0..MaxDocs} :
            embase_results' = docs
    /\ calls' = Append(calls, "search_embase")
    /\ pc' = "fetch_embase"
    /\ UNCHANGED <<queryVars, normVars, pubmed_ids, articles, pubmed_details,
                   embase_details, results_data, returned, failed>>

\* lines 339, 343-347: __search_embase raises
SearchEmbaseRaises ==
    /\ pc = "search_embase"
    /\ calls' = Append(calls, "search_embase")
    /\ embase_results' = <<>>
    /\ embase_details' = <<>>
    /\ failed' = failed \cup {"Embase"}
    /\ pc' = "build"
    /\ UNCHANGED <<queryVars, normVars, pubmed_ids, articles, pubmed_details,
                   results_data, returned>>

\* lines 340-347: the list comprehension over the documents; an exception
\* of __fetch_embase_details for any document lands in the except branch
FetchEmbaseDetails ==
    /\ pc = "fetch_embase"
    /\ LET got == [k \in 1..Len(embase_results) |->
                        fetch_embase_details(embase_results[k])]
       IN  IF \E k \in 1..Len(got) : got[k].raises # ""
           THEN /\ embase_results' = <<>>
                /\ embase_details' = <<>>
                /\ failed' = failed \cup {"Embase"}
           ELSE /\ embase_details' = [k \in 1..Len(got) |-> got[k].value]
                /\ UNCHANGED <<embase_results, failed>>
    /\ calls' = IF embase_results = <<>> THEN calls
                ELSE Append(calls, "fetch_embase_details")
    /\ pc' = "build"
    /\ UNCHANGED <<queryVars, normVars, pubmed_ids, articles, pubmed_details,
                   results_data, returned>>

\* the two for loops of search() in the other order
BuildRows_EmbaseFirst ==
    /\ pc = "build"
    /\ results_data' = embase_rows(embase_query, embase_results,
                                   embase_details)
                        \o pubmed_rows(query, pubmed_ids, pubmed_details)
    /\ pc' = "dedup"
    /\ UNCHANGED <<queryVars, normVars, pubmed_ids, articles, pubmed_details,
                   embase_results, embase_details, returned, calls, failed>>

\* lines 349-399: the rows of both sources, PubMed first
BuildRows ==
    /\ pc = "build"
    /\ results_data' = pubmed_rows(query, pubmed_ids, pubmed_details)
                        \o embase_rows(embase_query, embase_results,
                                       embase_details)
    /\ pc' = "dedup"
    /\ UNCHANGED <<queryVars, normVars, pubmed_ids, articles, pubmed_details,
                   embase_results, embase_details, returned, calls, failed>>

\* lines 401-414
DropDuplicates ==
    /\ pc = "dedup"
    /\ returned' = drop_duplicates(results_data)
    /\ pc' = "done"
    /\ UNCHANGED <<queryVars, normVars, pubmed_ids, articles, pubmed_details,
                   embase_results, embase_details, results_data, calls,
                   failed>>

Next ==
    \/ ValidateQuery
    \/ SearchPubmedReturns
    \/ SearchPubmedRaises
    \/ FetchPubmedReturns
    \/ FetchPubmedRaises
    \/ TranslateQuery
    \/ SearchEmbaseReturns
    \/ SearchEmbaseRaises
    \/ FetchEmbaseDetails
    \/ BuildRows
    \/ DropDuplicates

Spec == Init /\ [][Next]_vars

-----------------------------------------------------------------------------
(* Properties of search() *)

UpstreamCalls ==
    {"translate", "search_pubmed", "fetch_pubmed_details", "search_embase",
     "fetch_embase_details"}

\* C2: when the validator rejects the query nothing else is called and the
\* result is empty; the converter and the services are called only after
\* the validator has accepted the query.
C2_ValidatorGatesSearch ==
    /\ (calls # <<>> /\ ~valid) =>
            /\ pc = "done"
            /\ calls = <<"validate">>
            /\ results_data = <<>> /\ returned = <<>>
    /\ \A k \in 1..Len(calls) :
            calls[k] \in UpstreamCalls => (k > 1 /\ calls[1] = "validate" /\ valid)

C2_Witness ==
    /\ pc = "done" /\ ~valid /\ calls = <<"validate">> /\ returned = <<>>

SourcesOf(rows) == {rows[k].Source : k \in 1..Len(rows)}

RECURSIVE LettersFrom(_, _)
LettersFrom(t, i) ==
    IF i > Len(t) THEN <<>>
    ELSE LET c == ToLowerChar(t[i])
         IN  (IF c \in LowerSet THEN <<c>> ELSE <<>>) \o LettersFrom(t, i + 1)

LettersOf(t) == LettersFrom(t, 1)

NormalizedKey(row) == <<LettersOf(row.Title), LettersOf(row.Author)>>

\* the normalized keys of a list of rows
KeysOf(rows) == [i \in 1..Len(rows) |-> NormalizedKey(rows[i])]

\* C4: no two rows of the result of search() have the same normalized
\* (title, author) key.
C4_NoTwoRowsShareKey ==
    pc = "done" =>
        LET kept == KeysOf(returned)
        IN  \A i, j \in 1..Len(returned) : i # j => kept[i] # kept[j]

\* rows were dropped and several rows with different keys remain
C4_Witness ==
    /\ pc = "done"
    /\ Len(returned) >= 2
    /\ Len(returned) < Len(results_data)

\* the indices of the rows that are the first of their key
FirstOfKey(rows) ==
    LET keys == KeysOf(rows)
    IN  {i \in 1..Len(rows) : \A j \in 1..(i - 1) : keys[j] # keys[i]}

\* C5: the result is the list of rows with every row dropped that has an
\* earlier row of the same key: the surviving rows keep their order and
\* their values, nothing is dropped when all keys differ, and of a PubMed
\* row and an Embase row with the same key the PubMed row survives.
C5_FirstOfEachKeySurvives ==
    pc = "done" =>
        LET first == FirstOfKey(results_data)
            keys  == KeysOf(results_data)
            kept  == KeysOf(returned)
        IN  /\ Len(returned) = Cardinality(first)
            /\ \A k \in 1..Len(returned) :
                    returned[k] = results_data[CHOOSE i \in first :
                            Cardinality({j \in first : j <= i}) = k]
            /\ (first = 1..Len(results_data)) => returned = results_data
            /\ \A i, j \in 1..Len(results_data) :
                    (/\ results_data[i].Source = "PubMed"
                     /\ results_data[j].Source = "Embase"
                     /\ keys[i] = keys[j])
                    => \A k \in 1..Len(returned) :
                            kept[k] = keys[j] => returned[k].Source = "PubMed"

\* an Embase row was dropped because a PubMed row has its key
C5_Witness ==
    /\ pc = "done"
    /\ \E i, j \in 1..Len(results_data) :
            /\ results_data[i].Source = "PubMed"
            /\ results_data[j].Source = "Embase"
            /\ NormalizedKey(results_data[i]) = NormalizedKey(results_data[j])
    /\ "Embase" \in SourcesOf(returned)

\* C6: in the rows search() builds, the PubMed rows come first, in the order
\* of the id list, then the Embase rows in the order of the document list;
\* PubMed rows carry the query as typed, Embase rows the converted query.
\* The rows returned keep that order.
C6_PubmedFirstInApiOrder ==
    pc \in {"dedup", "done"} /\ valid =>
        LET np == Len(pubmed_ids)
            ne == Len(embase_results)
        IN  /\ Len(results_data) = np + ne
            /\ \A i \in 1..np :
                    /\ results_data[i].Source = "PubMed"
                    /\ results_data[i].ID = pubmed_ids[i]
                    /\ results_data[i].Query = query
            /\ \A i \in 1..ne :
                    /\ results_data[np + i].Source = "Embase"
                    /\ results_data[np + i].ID =
                            (IF embase_results[i].medl = Missing THEN NoID
                             ELSE embase_results[i].medl[1])
                    /\ results_data[np + i].Author =
                            embase_results[i].authors[1][1].surname[1]
                    /\ results_data[np + i].Query = embase_query
                    /\ embase_query # query
            /\ \A a, b \in 1..Len(returned) :
                    a < b =>
                        /\ ~(returned[a].Source = "Embase"
                                /\ returned[b].Source = "PubMed")
                        /\ (returned[a].Source = "PubMed"
                                /\ returned[b].Source = "PubMed") =>
                            \E i, j \in 1..np :
                                /\ i < j
                                /\ pubmed_ids[i] = returned[a].ID
                                /\ pubmed_ids[j] = returned[b].ID
            /\ \A a \in 1..Len(returned) :
                    returned[a].Query =
                        (IF returned[a].Source = "PubMed" THEN query
                         ELSE embase_query)

\* rows of both sources were built and returned
C6_Witness ==
    /\ pc = "done"
    /\ Len(pubmed_ids) = 2 /\ Len(embase_results) = 2
    /\ SourcesOf(returned) = {"PubMed", "Embase"}

\* C14: search() builds one PubMed row per id of the id list; the row of an
\* id holds the title, abstract and author extracted from the article node
\* with that PMID, or the three sentinels when the fetch answer has no such
\* node, and its link is the PubMed address of the id.
C14_PubmedRowMatchesItsId ==
    (pc \in {"dedup", "done"} /\ valid) =>
        LET rows == SelectSeq(results_data,
                        LAMBDA r : r.Source = "PubMed")
        IN  /\ Len(rows) = Len(pubmed_ids)
            /\ \A i \in 1..Len(rows) :
                    /\ rows[i].ID = pubmed_ids[i]
                    /\ rows[i].Link = PubmedLink(rows[i].ID)
                    /\ <<rows[i].Title, rows[i].Abstract, rows[i].Author>> =
                            (IF \E k \in 1..Len(articles) :
                                    articles[k].PMID = rows[i].ID
                             THEN pubmed_detail(
                                    articles[CHOOSE k \in 1..Len(articles) :
                                        articles[k].PMID = rows[i].ID])
                             ELSE NoDetails)

=============================================================================
